---- MODULE Spec2Model ----
(***************************************************************************)
(* mecha_board: the persistence adapter (DatabaseManager), its vote ledger *)
(* and its ranking queries.                                                *)
(*                                                                         *)
(* The adapter owns one storage handle (a sqlite3.Database or a pg.Client) *)
(* shared by every request.  An adapter operation is a chain of storage    *)
(* statements: each statement is issued on the handle, executes atomically *)
(* in the database, and its completion callback (or the code after the     *)
(* await) issues the next statement of the same call.  Calls of different  *)
(* requests are in flight together, so their statements interleave.        *)
(*                                                                         *)
(*   - pg.Client keeps a FIFO query queue: statements execute in the order *)
(*     in which they were issued.                                          *)
(*   - sqlite3: db.serialize() covers only the statement issued inside its *)
(*     callback (the lookup); the statements issued later from completion  *)
(*     callbacks run in the handle's default parallel mode, where pending  *)
(*     statements have no guaranteed order.  The model lets any pending    *)
(*     statement execute next and records in inOrder whether the run kept  *)
(*     the order of issue.                                                 *)
(*                                                                         *)
(* The HTTP handlers POST /news and POST /vote are modelled up to the       *)
(* adapter call they issue: their validation, the arguments they pass on   *)
(* and the response they send when they refuse the request.                *)
(*                                                                         *)
(* The process ends by a signal (the handlers of server.ts and of the      *)
(* telemetry system both run) or by an uncaught exception.  Not modelled:  *)
(* a failure to connect to PostgreSQL at startup.                          *)
(*                                                                         *)
(* The schema is the columns, CHECKs, UNIQUE column sets and indexes of    *)
(* the two tables.  Its initialization runs statement by statement on a    *)
(* database that is empty or holds the tables of the previous version of   *)
(* the adapter.  Not modelled: calls that arrive before the initialization *)
(* has completed, and rows stored by the previous version.                 *)
(*                                                                         *)
(* The rate limiter is modelled on its own, up to next() or the 429, and   *)
(* as a link of the middleware chain, which is modelled from the request   *)
(* to the middleware or route that answers it, under every telemetry       *)
(* configuration the environment can select.                               *)
(*                                                                         *)
(* The route handlers of GET /, POST /news and POST /vote are modelled     *)
(* from the request to the response, with adapter calls that may fail.     *)
(* Whether the router passes the rejection of a handler's promise on to    *)
(* the error-handling middleware depends on the router the build installs, *)
(* which the sources do not pin: both outcomes are steps of the model.     *)
(*                                                                         *)
(* The error tracker is the Map of its entries under trackError,           *)
(* resolveError and clearResolvedErrors.                                   *)
(*                                                                         *)
(* A text (summary, author) is the number of whitespace characters around  *)
(* it and the number of characters from its first to its last character    *)
(* that is not whitespace.  Not modelled: the columns id and created_at of *)
(* votes (no statement reads them) and the column link of news_items.      *)
(***************************************************************************)
EXTENDS Integers, Sequences, FiniteSets, TLC

\* ------------------------------------------------------------------ bounds
MaxItems == 2      \* news items created in one run
MaxVotes == 3      \* vote calls started in one run
ConcVotes == 2     \* vote calls started in a run with calls in flight together
QueryVotes == 2    \* vote calls started in a run with read operations
HttpVotes == 2     \* vote calls started in a run of the HTTP handlers
HttpItems == 1     \* news items created in a run of the HTTP handlers
FailVotes == 2     \* vote calls started in a run with failing statements
ShutdownVotes == 1 \* vote calls started in a run that ends with a shutdown
MaxRuns == 3       \* runs of the schema initialization on one database
SchemaVotes == 2   \* vote calls started on a database after its initialization
windowMs == 2      \* length of the rate limiter's window in clock ticks
                   \* (the server passes 60000 ms)
max == 2           \* requests passed on per window (the server passes 100)
RateTime == 6      \* clock ticks in a run of the rate limiter
MaxCount == 4      \* requests counted in one window
MaxOccurrences == 30 \* trackError calls with one fingerprint on one entry
RouteVotes == 2    \* vote calls started in a run of the route handlers
RouteItems == 1    \* news items created in a run of the route handlers
RouteFailures == 1 \* adapter calls that fail in a run of the route handlers
MaxTime  == 2      \* the clock runs over 0..MaxTime
NumCalls == 2      \* adapter calls in flight together
TicksPerDay == 2   \* clock ticks in one calendar day

\* ------------------------------------------------------- program constants
MaxSummaryLen == 200
MaxAuthorLen  == 50

VoteTypes   == {"up", "down"}
VoteSources == {"human", "machine"}
SortTypes   == {"top", "new", "classic"}

\* ------------------------------------------------------------------ texts
\* A string value; given is FALSE for undefined.
Text(pad, core) == [given |-> TRUE, pad |-> pad, core |-> core]
Undefined == [given |-> FALSE, pad |-> 0, core |-> 0]

\* string.length
Length(t) == t.pad + t.core

\* string.trim()
Trim(t) == [t EXCEPT !.pad = 0]

\* !value: undefined and the empty string are falsy.
Falsy(t) == ~t.given \/ Length(t) = 0

\* 'Anonymous'
Anonymous == Text(0, 9)

\* ------------------------------------------------------------ input sets
VoterIps       == {"1.2.3.4", "5.6.7.8"}
NewsItemIds    == 1..MaxItems
VoteSourceArgs == VoteSources \cup {"undefined"}
SummaryLens    == {MaxSummaryLen, MaxSummaryLen + 1}

\* Request bodies of POST /news: summaries and authors around the limits,
\* with and without surrounding whitespace, empty, blank and absent.
SummaryArgs ==
  {Undefined, Text(0, 0), Text(1, 0), Text(2, MaxSummaryLen - 2),
   Text(0, MaxSummaryLen), Text(0, MaxSummaryLen + 1)}
AuthorArgs ==
  {Undefined, Text(0, 0), Text(2, 0), Text(2, MaxAuthorLen - 2),
   Text(0, MaxAuthorLen + 1)}
LinkArgs == {"undefined", "", "not-a-url", "https://example.com/a"}

\* Request bodies of POST /vote.  NoNewsId: the body has no newsId.
NoNewsId == -1
NewsIdArgs   == {NoNewsId} \cup NewsItemIds
VoteTypeArgs == {"undefined", "up", "down", "sideways"}
RequestIps   == {"1.2.3.4"}
SourceArgs   == {"undefined", "human", "machine", "robot"}

VARIABLES
  response,     \* the request a route handler works on: [route, phase,
                \* responses, status]; responses counts the responses sent
  errors,       \* ErrorTracker.errors: the entries of the Map, each with its
                \* key [fingerprint, severity, occurrences, resolved]
  trackCalls,   \* ghost: fingerprint -> [count, first]: the trackError calls
                \* with it since its entry was created, and the severity the
                \* entry was created with
  trackerOp,    \* the operation of the error tracker that ran last
  isPostgres,   \* this.isPostgres: which backend the adapter was built on
  news_items,   \* table news_items: id -> [summary, author, created_at,
                \* vote_score]
  news_seq,     \* AUTOINCREMENT / SERIAL counter of news_items.id
  votes,        \* table votes: set of rows
  now,          \* CURRENT_TIMESTAMP
  queue,        \* the calls in flight, each with its pending statement, in
                \* the order in which the statements were issued on the handle
  settled,      \* the call that completed in this step, with its outcome
  returned,     \* ids returned by addNewsItem, in order of completion
  listed,       \* rows returned by the getNewsItemsBySort of this step
  counted,      \* counts returned by the getVoteCounts of this step
  handled,      \* the HTTP request handled in this step, with the status it
                \* was refused with (0: passed on to the adapter)
  proc,         \* the process: running, closing (a signal handler has run and
                \* its exit is pending) or exited; the calls of close() so far
  schema,       \* the tables of the database: their columns, the columns
                \* under a CHECK, the UNIQUE column sets of votes, the indexes
  init,         \* the schema initialization of this run of the process: its
                \* pending statements; the runs completed before this one
  requests,     \* the rate limiter's Map: ip -> [count, resetTime]
  windows,      \* per ip, the time of the request that opened its current
                \* window and the requests passed on since then
  env,          \* process.env: DISABLE_TELEMETRY, TELEMETRY_MODE, NODE_ENV
  telemetry,    \* the telemetry system: initialized, and its configuration
  served,       \* the request that went through the middleware chain in
                \* this step: the middleware it reached and its response
  votesStarted, \* number of vote calls started
  inOrder,      \* every statement so far executed in order of issue
  allOnItems    \* every vote call so far named a news item that existed

vars == <<isPostgres, news_items, news_seq, votes, now, queue, settled,
          returned, listed, counted, handled, proc, schema, init, requests,
          windows, env, telemetry, served, errors, trackCalls, trackerOp,
          response, votesStarted, inOrder, allOnItems>>

\* ------------------------------------------------- telemetry configuration
TelemetryModes == {"undefined", "off", "minimal", "full", "development"}
NodeEnvs == {"development", "production"}

\* process.env as loadConfig reads it: DISABLE_TELEMETRY === 'true',
\* TELEMETRY_MODE, NODE_ENV || 'development'.
Envs ==
  [DISABLE_TELEMETRY : BOOLEAN, TELEMETRY_MODE : TelemetryModes,
   NODE_ENV : NodeEnvs]

DefaultEnv ==
  [DISABLE_TELEMETRY |-> FALSE, TELEMETRY_MODE |-> "undefined",
   NODE_ENV |-> "development"]

defaultDevelopmentConfig ==
  [enabled   |-> TRUE,
   logging   |-> [enabled |-> TRUE, level |-> "debug"],
   metrics   |-> [enabled |-> TRUE],
   tracing   |-> [enabled |-> TRUE],
   endpoints |-> [health |-> TRUE, metrics |-> TRUE, errors |-> TRUE,
                  debug |-> TRUE]]

defaultProductionConfig ==
  [enabled   |-> FALSE,
   logging   |-> [enabled |-> FALSE, level |-> "error"],
   metrics   |-> [enabled |-> FALSE],
   tracing   |-> [enabled |-> FALSE],
   endpoints |-> [health |-> TRUE, metrics |-> FALSE, errors |-> FALSE,
                  debug |-> FALSE]]

minimalSafeConfig ==
  [enabled   |-> TRUE,
   logging   |-> [enabled |-> TRUE, level |-> "error"],
   metrics   |-> [enabled |-> FALSE],
   tracing   |-> [enabled |-> FALSE],
   endpoints |-> [health |-> TRUE, metrics |-> FALSE, errors |-> FALSE,
                  debug |-> FALSE]]

loadConfig(e) ==
  IF e.DISABLE_TELEMETRY
  THEN [defaultProductionConfig EXCEPT !.enabled = FALSE]
  ELSE CASE e.TELEMETRY_MODE = "off" ->
              [defaultProductionConfig EXCEPT !.enabled = FALSE]
         [] e.TELEMETRY_MODE = "minimal" -> minimalSafeConfig
         [] e.TELEMETRY_MODE = "full" ->
              IF e.NODE_ENV = "production" THEN defaultProductionConfig
              ELSE defaultDevelopmentConfig
         [] e.TELEMETRY_MODE = "development" -> defaultDevelopmentConfig
         [] OTHER ->
              IF e.NODE_ENV = "production"
              THEN [defaultProductionConfig EXCEPT !.enabled = FALSE]
              ELSE defaultDevelopmentConfig

isEnabled(config) == config.enabled
isLoggingEnabled(config) == config.enabled /\ config.logging.enabled
isMetricsEnabled(config) == config.enabled /\ config.metrics.enabled
isTracingEnabled(config) == config.enabled /\ config.tracing.enabled
isEndpointEnabled(config, endpoint) ==
  config.enabled /\ config.endpoints[endpoint]

\* The telemetry system before TelemetrySystem.initialize() has run: the
\* configuration is not loaded (its value here is not read).
NotInitialized == [initialized |-> FALSE, config |-> defaultProductionConfig]

\* ------------------------------------------------------------------ calls
\* A call in flight: its operation, arguments and locals, and pc, the
\* statement it has pending on the handle.
NoCall ==
  [op |-> "none", pc |-> "none", outcome |-> "none",
   newsItemId |-> 0, voteType |-> "none", voterIp |-> "none",
   voteSource |-> "none", existingVote |-> "none", voteScore |-> 0,
   summary |-> Undefined, author |-> Undefined, retBool |-> FALSE,
   retId |-> 0, err |-> FALSE]

Quiescent == queue = <<>>

NoList   == [sortType |-> "none", rows |-> <<>>]
NoCounts == [newsItemId |-> 0, human_upvotes |-> 0, human_downvotes |-> 0,
             machine_upvotes |-> 0, machine_downvotes |-> 0]
\* No HTTP request is handled in this step.
NoRequest ==
  [route |-> "none", summary |-> Undefined, link |-> "undefined",
   author |-> Undefined, newsId |-> 0, voteType |-> "undefined",
   source |-> "undefined", voterIp |-> "none", status |-> 0]

\* No request goes through the middleware chain in this step.
NoServed ==
  [method |-> "none", path |-> "none", ip |-> "none", threat |-> "none",
   reached |-> {}, status |-> 0, body |-> "none", logged |-> FALSE,
   measured |-> FALSE, traced |-> FALSE]

NoReads  == listed' = NoList /\ counted' = NoCounts /\ served' = NoServed
NoOutput == NoReads /\ handled' = NoRequest

\* ------------------------------------------------------ the storage handle
\* The statement at position i of the queue may execute next.
CanExec(i) == i \in 1..Len(queue) /\ (isPostgres => i = 1)

Dequeue(i) == SubSeq(queue, 1, i - 1) \o SubSeq(queue, i + 1, Len(queue))

\* The statement at i has executed and its call issues the next one.
Continue(i, call) ==
  /\ queue' = Append(Dequeue(i), call)
  /\ settled' = NoCall

\* The statement at i has executed and its call completes.
Settle(i, outcome, retBool, retId) ==
  /\ queue' = Dequeue(i)
  /\ settled' = [queue[i] EXCEPT !.outcome = outcome, !.pc = "done",
                                 !.retBool = retBool, !.retId = retId]

\* Mutant: the callback ignores err and resolves.
ErrorSwallowed == "resolved"

\* if (err) reject(err) / the rejection of an awaited query: how a call whose
\* statement failed ends.
ErrorOutcome == "rejected"

\* The statement at i has failed: its call ends, with pc the failed statement.
Raise(i) ==
  /\ queue' = Dequeue(i)
  /\ settled' = [queue[i] EXCEPT !.outcome = ErrorOutcome, !.err = TRUE]

\* ------------------------------------------------------------ table votes
SameTriple(v, newsItemId, voterIp, voteSource) ==
  /\ v.news_item_id = newsItemId
  /\ v.voter_ip = voterIp
  /\ v.vote_source = voteSource

\* Mutant: the lookup leaves out vote_source.
SelectExistingVoteAnySource(newsItemId, voterIp, voteSource) ==
  LET found == {v \in votes : v.news_item_id = newsItemId /\ v.voter_ip = voterIp}
  IN  IF found = {} THEN "none" ELSE (CHOOSE v \in found : TRUE).vote_type

\* SELECT vote_type FROM votes WHERE news_item_id = ? AND voter_ip = ?
\* AND vote_source = ?  (the first row, or none)
SelectExistingVote(newsItemId, voterIp, voteSource) ==
  LET found == {v \in votes : SameTriple(v, newsItemId, voterIp, voteSource)}
  IN  IF found = {} THEN "none" ELSE (CHOOSE v \in found : TRUE).vote_type

\* ------------------------------------------------------------------ schema
VotesTriple == {"news_item_id", "voter_ip", "vote_source"}
VotesPair   == {"news_item_id", "voter_ip"}

\* A database without tables.
EmptySchema ==
  [news_items |-> {}, votes |-> {}, checks |-> {}, uniques |-> {},
   indexes |-> {}]

\* The tables as the previous version of the adapter created them, on both
\* backends: no author, no vote_source, UNIQUE(news_item_id, voter_ip).
OlderSchema ==
  [news_items |-> {"id", "summary", "link", "created_at", "vote_score"},
   votes      |-> {"id", "news_item_id", "vote_type", "voter_ip", "created_at"},
   checks     |-> {"summary", "vote_type"},
   uniques    |-> {VotesPair},
   indexes    |-> {"idx_news_vote_score", "idx_votes_news_id"}]

\* The tables as the CREATE TABLE statements of this version define them.
NewestSchema ==
  [news_items |-> {"id", "summary", "link", "author", "created_at",
                   "vote_score"},
   votes      |-> {"id", "news_item_id", "vote_type", "voter_ip",
                   "vote_source", "created_at"},
   checks     |-> {"summary", "vote_type", "vote_source"},
   uniques    |-> {VotesTriple},
   indexes    |-> {"idx_news_vote_score", "idx_votes_news_id"}]

\* CREATE TABLE IF NOT EXISTS news_items, votes; CREATE INDEX IF NOT EXISTS:
\* a table that exists is left as it is.
CreateIfNotExists(s) ==
  LET news == s.news_items = {}
      vote == s.votes = {}
  IN  [news_items |-> IF news THEN NewestSchema.news_items ELSE s.news_items,
       votes      |-> IF vote THEN NewestSchema.votes ELSE s.votes,
       checks     |-> s.checks \cup (IF news THEN {"summary"} ELSE {})
                               \cup (IF vote THEN {"vote_type", "vote_source"}
                                     ELSE {}),
       uniques    |-> s.uniques \cup (IF vote THEN {VotesTriple} ELSE {}),
       indexes    |-> s.indexes \cup {"idx_news_vote_score",
                                      "idx_votes_news_id"}]

\* Mutant: the metadata is not consulted, the column is taken as missing.
HasColumnUnchecked(s, table, column) == FALSE

\* columns.some(col => col.name === column) on PRAGMA table_info(table)
HasColumn(s, table, column) == column \in s[table]

\* The column that the migration of a table adds.
MigratedColumn(table) == IF table = "votes" THEN "vote_source" ELSE "author"

\* ALTER TABLE table ADD COLUMN ...; for votes followed by CREATE UNIQUE
\* INDEX IF NOT EXISTS idx_votes_unique.  The constraints that the table was
\* created with stay.
AddColumn(s, table) ==
  IF table = "votes"
  THEN [s EXCEPT !.votes   = @ \cup {"vote_source"},
                 !.checks  = @ \cup {"vote_source"},
                 !.uniques = @ \cup {VotesTriple},
                 !.indexes = @ \cup {"idx_votes_unique"}]
  ELSE [s EXCEPT !.news_items = @ \cup {"author"}]

\* The initialization has no statement pending.
InitDone ==
  init.create = "done" /\ init.votes = "done" /\ init.news_items = "done"

\* The pending statement of a call names a column that the table lacks.
MissingColumn(call) ==
  \/ call.pc \in {"lookup", "insert", "update"} /\ "vote_source" \notin schema.votes
  \/ call.pc = "insertNews" /\ "author" \notin schema.news_items

\* The backend enforces the FOREIGN KEY clause: PostgreSQL always does, the
\* sqlite3 handle only after PRAGMA foreign_keys = ON, which is never issued.
ForeignKeysEnforced == isPostgres

\* Mutant: the table carries no uniqueness constraint.
UniqueVoteMissing(row) == TRUE

\* Every UNIQUE constraint and unique index of votes: no stored row agrees
\* with row on all of its columns.
UniqueVote(row) ==
  \A columns \in schema.uniques :
     ~\E v \in votes : \A c \in columns : v[c] = row[c]

\* Constraints of table votes that an INSERT of row must pass.
InsertVoteAccepted(row) ==
  /\ "vote_type" \in schema.checks => row.vote_type \in VoteTypes
  /\ "vote_source" \in schema.checks => row.vote_source \in VoteSources
  /\ UniqueVote(row)
  /\ ForeignKeysEnforced => row.news_item_id \in DOMAIN news_items

\* voteSource: 'human' | 'machine' = 'human'
DefaultVoteSource(arg) == IF arg = "undefined" THEN "human" ELSE arg

\* Mutant: the aggregate counts the rows of human votes only.
ComputeVoteScoreHumanOnly(newsItemId) ==
  Cardinality({v \in votes : /\ v.news_item_id = newsItemId
                             /\ v.vote_source = "human"
                             /\ v.vote_type = "up"})
  - Cardinality({v \in votes : /\ v.news_item_id = newsItemId
                               /\ v.vote_source = "human"
                               /\ v.vote_type = "down"})

CountVotes(newsItemId, voteType) ==
  Cardinality({v \in votes : v.news_item_id = newsItemId /\ v.vote_type = voteType})

\* SELECT SUM(up), SUM(down) FROM votes WHERE news_item_id = ?; a NULL sum
\* counts as 0; voteScore = upvotes - downvotes.
ComputeVoteScore(newsItemId) ==
  CountVotes(newsItemId, "up") - CountVotes(newsItemId, "down")

\* ------------------------------------------------------------------- vote
\* vote() issues the lookup of the existing vote.
Vote(newsItemId, voteType, voterIp, voteSourceArg) ==
  /\ Len(queue) < NumCalls
  /\ votesStarted < MaxVotes
  /\ queue' = Append(queue,
        [NoCall EXCEPT !.op = "vote", !.pc = "lookup", !.outcome = "pending",
                       !.newsItemId = newsItemId, !.voteType = voteType,
                       !.voterIp = voterIp,
                       !.voteSource = DefaultVoteSource(voteSourceArg)])
  /\ settled' = NoCall
  /\ votesStarted' = votesStarted + 1
  /\ allOnItems' = (allOnItems /\ newsItemId \in DOMAIN news_items)
  /\ NoReads
  /\ UNCHANGED <<isPostgres, errors, trackCalls, trackerOp, env, telemetry, requests, windows, proc, schema, init, news_items, news_seq, votes, now, returned, inOrder>>

\* Mutant: any existing vote of the triple counts as the same vote.
SameVoteAnyType(existingVote, voteType) == existingVote # "none"

\* existingVote && existingVote.vote_type === voteType
SameVote(existingVote, voteType) == existingVote = voteType

\* The lookup completes: same vote -> false; other vote -> UPDATE; none -> INSERT.
ExecLookup(i) ==
  /\ CanExec(i)
  /\ ~MissingColumn(queue[i])
  /\ queue[i].pc = "lookup"
  /\ LET call == queue[i]
         existingVote == SelectExistingVote(call.newsItemId, call.voterIp,
                                            call.voteSource)
     IN  IF SameVote(existingVote, call.voteType)
         THEN /\ queue' = Dequeue(i)
              /\ settled' = [call EXCEPT !.outcome = "resolved", !.pc = "done",
                                         !.existingVote = existingVote,
                                         !.retBool = FALSE]
         ELSE Continue(i, [call EXCEPT !.existingVote = existingVote,
                                       !.pc = IF existingVote = "none"
                                              THEN "insert" ELSE "update"])
  /\ inOrder' = (inOrder /\ i = 1)
  /\ NoOutput
  /\ UNCHANGED <<isPostgres, response, errors, trackCalls, trackerOp, env, telemetry, requests, windows, proc, schema, init, news_items, news_seq, votes, now, returned,
                 votesStarted, allOnItems>>

\* INSERT INTO votes (news_item_id, vote_type, voter_ip, vote_source); a
\* refused INSERT rejects the call.
ExecInsertVote(i) ==
  /\ CanExec(i)
  /\ ~MissingColumn(queue[i])
  /\ queue[i].pc = "insert"
  /\ LET call == queue[i]
         row == [news_item_id |-> call.newsItemId,
                 vote_type |-> call.voteType,
                 voter_ip |-> call.voterIp,
                 vote_source |-> call.voteSource]
     IN  IF InsertVoteAccepted(row)
         THEN /\ votes' = votes \cup {row}
              /\ Continue(i, [call EXCEPT !.pc = "aggregate"])
         ELSE /\ votes' = votes
              /\ Raise(i)
  /\ inOrder' = (inOrder /\ i = 1)
  /\ NoOutput
  /\ UNCHANGED <<isPostgres, response, errors, trackCalls, trackerOp, env, telemetry, requests, windows, proc, schema, init, news_items, news_seq, now, returned,
                 votesStarted, allOnItems>>

\* Mutant: the WHERE clause of the UPDATE leaves out vote_source.
UpdateVoteAnySource(call) ==
  {IF v.news_item_id = call.newsItemId /\ v.voter_ip = call.voterIp
   THEN [v EXCEPT !.vote_type = call.voteType]
   ELSE v : v \in votes}

\* UPDATE votes SET vote_type = ?, created_at = CURRENT_TIMESTAMP WHERE
\* news_item_id = ? AND voter_ip = ? AND vote_source = ?
UpdateVote(call) ==
  {IF SameTriple(v, call.newsItemId, call.voterIp, call.voteSource)
   THEN [v EXCEPT !.vote_type = call.voteType]
   ELSE v : v \in votes}

ExecUpdateVote(i) ==
  /\ CanExec(i)
  /\ ~MissingColumn(queue[i])
  /\ queue[i].pc = "update"
  /\ votes' = UpdateVote(queue[i])
  /\ Continue(i, [queue[i] EXCEPT !.pc = "aggregate"])
  /\ inOrder' = (inOrder /\ i = 1)
  /\ NoOutput
  /\ UNCHANGED <<isPostgres, response, errors, trackCalls, trackerOp, env, telemetry, requests, windows, proc, schema, init, news_items, news_seq, now, returned,
                 votesStarted, allOnItems>>

\* updateVoteScore, first statement: the aggregate over the item's rows.
ExecAggregate(i) ==
  /\ CanExec(i)
  /\ ~MissingColumn(queue[i])
  /\ queue[i].pc = "aggregate"
  /\ Continue(i, [queue[i] EXCEPT !.pc = "score",
                     !.voteScore = ComputeVoteScore(queue[i].newsItemId)])
  /\ inOrder' = (inOrder /\ i = 1)
  /\ NoOutput
  /\ UNCHANGED <<isPostgres, response, errors, trackCalls, trackerOp, env, telemetry, requests, windows, proc, schema, init, news_items, news_seq, votes, now, returned,
                 votesStarted, allOnItems>>

\* Mutant: the UPDATE of news_items has no WHERE clause.
SetVoteScoreAllRows(newsItemId, voteScore) ==
  [id \in DOMAIN news_items |-> [news_items[id] EXCEPT !.vote_score = voteScore]]

\* UPDATE news_items SET vote_score = ? WHERE id = ?
SetVoteScore(newsItemId, voteScore) ==
  [id \in DOMAIN news_items |->
     IF id = newsItemId
     THEN [news_items[id] EXCEPT !.vote_score = voteScore]
     ELSE news_items[id]]

\* updateVoteScore, second statement; then vote resolves true.
ExecUpdateScore(i) ==
  /\ CanExec(i)
  /\ ~MissingColumn(queue[i])
  /\ queue[i].pc = "score"
  /\ news_items' = SetVoteScore(queue[i].newsItemId, queue[i].voteScore)
  /\ Settle(i, "resolved", TRUE, 0)
  /\ inOrder' = (inOrder /\ i = 1)
  /\ NoOutput
  /\ UNCHANGED <<isPostgres, response, errors, trackCalls, trackerOp, env, telemetry, requests, windows, proc, schema, init, news_seq, votes, now, returned,
                 votesStarted, allOnItems>>

\* ------------------------------------------------------------ addNewsItem
\* Mutant: the counter is read but not advanced.
NextNewsIdStale(seq) == IF seq = 0 THEN 1 ELSE seq

\* The id an INSERT into news_items draws from the counter.
NextNewsId(seq) == seq + 1

\* CHECK(length(summary) <= 200)
InsertNewsAccepted(summary) ==
  "summary" \in schema.checks => Length(summary) <= MaxSummaryLen

\* author: string = 'Anonymous'
DefaultAuthor(arg) == IF arg.given THEN arg ELSE Anonymous

AddNewsItem(summary, author) ==
  /\ Len(queue) < NumCalls
  /\ news_seq + Cardinality({i \in 1..Len(queue) : queue[i].op = "add"}) < MaxItems
  /\ queue' = Append(queue,
        [NoCall EXCEPT !.op = "add", !.pc = "insertNews",
                       !.outcome = "pending", !.summary = summary,
                       !.author = DefaultAuthor(author)])
  /\ settled' = NoCall
  /\ NoReads
  /\ UNCHANGED <<isPostgres, errors, trackCalls, trackerOp, env, telemetry, requests, windows, proc, schema, init, news_items, news_seq, votes, now, returned,
                 votesStarted, inOrder, allOnItems>>

\* INSERT INTO news_items (summary, link, author): created_at and vote_score
\* take their column defaults; the new id is returned.  A SERIAL value drawn
\* for a row the CHECK then refuses is not given back.
ExecInsertNews(i) ==
  /\ CanExec(i)
  /\ ~MissingColumn(queue[i])
  /\ queue[i].pc = "insertNews"
  /\ LET id == NextNewsId(news_seq)
     IN  /\ IF InsertNewsAccepted(queue[i].summary)
            THEN /\ news_items' =
                      [n \in DOMAIN news_items \cup {id} |->
                         IF n = id
                         THEN [summary |-> queue[i].summary,
                               author |-> queue[i].author,
                               created_at |-> now, vote_score |-> 0]
                         ELSE news_items[n]]
                 /\ news_seq' = id
                 /\ returned' = Append(returned, id)
                 /\ Settle(i, "resolved", FALSE, id)
            ELSE /\ news_items' = news_items
                 /\ news_seq' = IF isPostgres THEN id ELSE news_seq
                 /\ returned' = returned
                 /\ Raise(i)
  /\ inOrder' = (inOrder /\ i = 1)
  /\ NoOutput
  /\ UNCHANGED <<isPostgres, response, errors, trackCalls, trackerOp, env, telemetry, requests, windows, proc, schema, init, votes, now, votesStarted, allOnItems>>

\* ----------------------------------------------------- getNewsItemsBySort
\* DATE(created_at)
DateOf(t) == t \div TicksPerDay

\* Mutant: the query for 'top' has no WHERE clause.
SelectedAnyDay(sortType) == DOMAIN news_items

\* WHERE clause of the query built for sortType.
Selected(sortType) ==
  IF sortType = "top"
  THEN {n \in DOMAIN news_items : DateOf(news_items[n].created_at) = DateOf(now)}
  ELSE DOMAIN news_items

\* Mutant: every sort type orders by vote_score first.
OrderedBeforeByScore(sortType, a, b) ==
  \/ news_items[a].vote_score > news_items[b].vote_score
  \/ /\ news_items[a].vote_score = news_items[b].vote_score
     /\ news_items[a].created_at >= news_items[b].created_at

\* ORDER BY clause of the query built for sortType: row a may come right
\* before row b.  Rows that tie on the sort keys come in either order.
OrderedBefore(sortType, a, b) ==
  IF sortType = "new"
  THEN news_items[a].created_at >= news_items[b].created_at
  ELSE \/ news_items[a].vote_score > news_items[b].vote_score
       \/ /\ news_items[a].vote_score = news_items[b].vote_score
          /\ news_items[a].created_at >= news_items[b].created_at

\* The row sequences the query for sortType may return (rows by id).
QueryResults(sortType) ==
  LET S == Selected(sortType)
      k == Cardinality(S)
  IN  {r \in [1..k -> S] :
         /\ \A i, j \in 1..k : i # j => r[i] # r[j]
         /\ \A i \in 1..(k - 1) : OrderedBefore(sortType, r[i], r[i + 1])}

\* One SELECT on the handle; it reads the tables as they are when it executes.
GetNewsItemsBySort(sortType) ==
  /\ \E r \in QueryResults(sortType) :
        listed' = [sortType |-> sortType, rows |-> r]
  /\ counted' = NoCounts
  /\ handled' = NoRequest
  /\ served' = NoServed
  /\ settled' = NoCall
  /\ UNCHANGED <<isPostgres, response, errors, trackCalls, trackerOp, env, telemetry, requests, windows, proc, schema, init, news_items, news_seq, votes, now, queue,
                 returned, votesStarted, inOrder, allOnItems>>

\* ---------------------------------------------------------- getVoteCounts
\* ... FROM votes WHERE news_item_id = ? GROUP BY vote_source: one row per
\* vote_source that has rows.
GroupBySource(newsItemId) ==
  {[vote_source |-> s,
    upvotes   |-> Cardinality({v \in votes : /\ v.news_item_id = newsItemId
                                              /\ v.vote_source = s
                                              /\ v.vote_type = "up"}),
    downvotes |-> Cardinality({v \in votes : /\ v.news_item_id = newsItemId
                                              /\ v.vote_source = s
                                              /\ v.vote_type = "down"})] :
   s \in {v.vote_source : v \in {w \in votes : w.news_item_id = newsItemId}}}

\* Mutant: the machine counts are taken from the human row.
CountsOfHumanRow(newsItemId) ==
  LET rows == GroupBySource(newsItemId)
      Sum(source, field) ==
        IF \E row \in rows : row.vote_source = source
        THEN (CHOOSE row \in rows : row.vote_source = source)[field]
        ELSE 0
  IN  [newsItemId        |-> newsItemId,
       human_upvotes     |-> Sum("human", "upvotes"),
       human_downvotes   |-> Sum("human", "downvotes"),
       machine_upvotes   |-> Sum("human", "upvotes"),
       machine_downvotes |-> Sum("human", "downvotes")]

\* counts starts at 0 and takes the sums of the human and of the machine row.
CountsOf(newsItemId) ==
  LET rows == GroupBySource(newsItemId)
      Sum(source, field) ==
        IF \E row \in rows : row.vote_source = source
        THEN (CHOOSE row \in rows : row.vote_source = source)[field]
        ELSE 0
  IN  [newsItemId        |-> newsItemId,
       human_upvotes     |-> Sum("human", "upvotes"),
       human_downvotes   |-> Sum("human", "downvotes"),
       machine_upvotes   |-> Sum("machine", "upvotes"),
       machine_downvotes |-> Sum("machine", "downvotes")]

GetVoteCounts(newsItemId) ==
  /\ "vote_source" \in schema.votes
  /\ counted' = CountsOf(newsItemId)
  /\ listed' = NoList
  /\ handled' = NoRequest
  /\ served' = NoServed
  /\ settled' = NoCall
  /\ UNCHANGED <<isPostgres, response, errors, trackCalls, trackerOp, env, telemetry, requests, windows, proc, schema, init, news_items, news_seq, votes, now, queue,
                 returned, votesStarted, inOrder, allOnItems>>

\* The statement at i fails for a reason outside the tables (connection lost,
\* disk full, database locked): nothing is written and its callback gets err.
FailStatement(i) ==
  /\ CanExec(i)
  /\ Raise(i)
  /\ inOrder' = (inOrder /\ i = 1)
  /\ NoOutput
  /\ UNCHANGED <<isPostgres, response, errors, trackCalls, trackerOp, env, telemetry, requests, windows, proc, schema, init, news_items, news_seq, votes, now, returned,
                 votesStarted, allOnItems>>

\* getAllNewsItems: the query of 'classic'.
GetAllNewsItems ==
  /\ \E r \in QueryResults("classic") :
        listed' = [sortType |-> "all", rows |-> r]
  /\ counted' = NoCounts
  /\ handled' = NoRequest
  /\ served' = NoServed
  /\ settled' = NoCall
  /\ UNCHANGED <<isPostgres, response, errors, trackCalls, trackerOp, env, telemetry, requests, windows, proc, schema, init, news_items, news_seq, votes, now, queue,
                 returned, votesStarted, inOrder, allOnItems>>

\* The one SELECT of getAllNewsItems, getNewsItemsBySort or getVoteCounts
\* fails: the operation rejects and returns nothing.
FailRead(op) ==
  /\ settled' = [NoCall EXCEPT !.op = op, !.pc = "select",
                               !.outcome = ErrorOutcome, !.err = TRUE]
  /\ NoOutput
  /\ UNCHANGED <<isPostgres, response, errors, trackCalls, trackerOp, env, telemetry, requests, windows, proc, schema, init, news_items, news_seq, votes, now, queue,
                 returned, votesStarted, inOrder, allOnItems>>

\* ---------------------------------------------------------- HTTP handlers
\* new URL(link) does not throw.
IsValidUrl(link) == link = "https://example.com/a"

\* Mutant: the handler does not parse the link.
NewsRefusedWithoutUrlCheck(summary, link, author) ==
  \/ Falsy(summary) \/ link \in {"undefined", ""}
  \/ Length(summary) > MaxSummaryLen
  \/ (~Falsy(author) /\ Length(author) > MaxAuthorLen)

\* POST /news answers 400 without calling the adapter.
NewsRefused(summary, link, author) ==
  \/ Falsy(summary) \/ link \in {"undefined", ""}
  \/ Length(summary) > MaxSummaryLen
  \/ (~Falsy(author) /\ Length(author) > MaxAuthorLen)
  \/ ~IsValidUrl(link)

\* const authorName = author ? author.trim() : 'Anonymous'
AuthorName(author) == IF Falsy(author) THEN Anonymous ELSE Trim(author)

\* The request is refused: nothing but the response happens.
Refuse(request) ==
  /\ handled' = [request EXCEPT !.status = 400]
  /\ settled' = NoCall
  /\ NoReads
  /\ UNCHANGED <<isPostgres, errors, trackCalls, trackerOp, env, telemetry, requests, windows, proc, schema, init, news_items, news_seq, votes, now, queue,
                 returned, votesStarted, inOrder, allOnItems>>

PostNews(summary, link, author) ==
  LET request == [NoRequest EXCEPT !.route = "/news", !.summary = summary,
                                   !.link = link, !.author = author]
  IN  IF NewsRefused(summary, link, author)
      THEN Refuse(request)
      ELSE /\ AddNewsItem(Trim(summary), AuthorName(author))
           /\ handled' = request

\* const voteSource = source === 'machine' ? 'machine' : 'human'
VoteSourceOf(source) == IF source = "machine" THEN "machine" ELSE "human"

\* POST /vote answers 400 without calling the adapter.
VoteRefused(newsId, voteType) ==
  \/ newsId \in {NoNewsId, 0}
  \/ voteType \in {"undefined", ""}
  \/ voteType \notin VoteTypes

PostVote(newsId, voteType, source, voterIp) ==
  LET request == [NoRequest EXCEPT !.route = "/vote", !.newsId = newsId,
                                   !.voteType = voteType, !.source = source,
                                   !.voterIp = voterIp]
  IN  IF VoteRefused(newsId, voteType)
      THEN Refuse(request)
      ELSE /\ Vote(newsId, voteType, voterIp, VoteSourceOf(source))
           /\ handled' = request

\* ------------------------------------------------------------ rate limiter
RateIps == {"1.2.3.4", "5.6.7.8"}

\* new Map(): no ip has a record.
NoRecords == [ip \in {} |-> 0]

\* Mutant: the window is over from its reset time on.
WindowOverAtReset(record, time) == time >= record.resetTime

\* now > record.resetTime
WindowOver(record, time) == time > record.resetTime

\* The request is passed on (next()) or answered with status 429.
Limited(ip, status) ==
  [NoRequest EXCEPT !.route = "*", !.voterIp = ip, !.status = status]

\* The window of ip as the requests define it: a request that arrives later
\* than windowMs after the one that opened the window opens the next one.
Window(ip, passed) ==
  LET n == IF passed THEN 1 ELSE 0
  IN  IF ip \in DOMAIN windows /\ now <= windows[ip].opened + windowMs
      THEN [windows[ip] EXCEPT !.passed = @ + n]
      ELSE [opened |-> now, passed |-> n]

\* The middleware returned by rateLimitMiddleware(windowMs, max), on a
\* request from ip.
RateLimit(ip) ==
  /\ IF ip \notin DOMAIN requests \/ WindowOver(requests[ip], now)
     THEN /\ requests' = [i \in DOMAIN requests \cup {ip} |->
                            IF i = ip
                            THEN [count |-> 1, resetTime |-> now + windowMs]
                            ELSE requests[i]]
          /\ handled' = Limited(ip, 0)
     ELSE /\ requests[ip].count < MaxCount
          /\ requests' = [requests EXCEPT ![ip].count = @ + 1]
          /\ handled' = Limited(ip, IF requests[ip].count + 1 > max
                                    THEN 429 ELSE 0)
  /\ windows' = [i \in DOMAIN windows \cup {ip} |->
                   IF i = ip THEN Window(ip, handled'.status = 0)
                   ELSE windows[i]]
  /\ settled' = NoCall
  /\ listed' = NoList
  /\ counted' = NoCounts
  /\ UNCHANGED <<isPostgres, response, errors, trackCalls, trackerOp, env, telemetry, proc, schema, init, news_items, news_seq, votes,
                 now, queue, returned, votesStarted, inOrder, allOnItems>>

\* Date.now() advances.
Elapse ==
  /\ now < RateTime
  /\ now' = now + 1
  /\ settled' = NoCall
  /\ NoOutput
  /\ UNCHANGED <<isPostgres, response, errors, trackCalls, trackerOp, env, telemetry, requests, windows, proc, schema, init,
                 news_items, news_seq, votes, queue, returned, votesStarted,
                 inOrder, allOnItems>>

\* ------------------------------------------------------- middleware chain
Methods == {"GET", "POST"}
Paths ==
  {"/health", "/metrics", "/errors", "/debug", "/debug/dump", "/", "/news",
   "/vote", "/missing"}
\* Where a request carries a suspicious pattern.
Threats == {"none", "query", "body"}
ChainIps == {"1.2.3.4"}

\* TelemetrySystem.initialize(): the configuration is loaded from process.env;
\* nothing else is initialized when telemetry is not enabled.
Initialize ==
  /\ ~telemetry.initialized
  /\ telemetry' = [initialized |-> TRUE, config |-> loadConfig(env)]
  /\ settled' = NoCall
  /\ NoOutput
  /\ UNCHANGED <<isPostgres, response, errors, trackCalls, trackerOp, env, requests, windows, proc, schema, init,
                 news_items, news_seq, votes, now, queue, returned,
                 votesStarted, inOrder, allOnItems>>

\* healthCheckMiddleware answers these paths itself.
HealthPaths == {"/health", "/metrics", "/errors"}

\* Mutant: the health check answers /health only when the endpoint is enabled.
HealthAnsweredWhenEnabled(req) ==
  /\ req.path \in HealthPaths
  /\ req.path = "/health" => isEndpointEnabled(telemetry.config, "health")

HealthAnswered(req) == req.path \in HealthPaths

\* securityMiddleware: checkForThreats(JSON.stringify({body: req.body, query:
\* req.query, params: req.params})).  It runs before express.json(), where
\* req.body is undefined, and outside any route, where req.params is empty.
ThreatFound(req) == req.threat = "query"

\* debugMiddleware answers /debug, and /debug/dump on POST.
DebugAnswered(req) ==
  \/ req.path = "/debug"
  \/ req.path = "/debug/dump" /\ req.method = "POST"

\* app.get('/'), app.post('/news'), app.post('/vote')
RouteMatched(req) ==
  \/ req.method = "GET" /\ req.path = "/"
  \/ req.method = "POST" /\ req.path \in {"/news", "/vote"}

\* The middleware registered before the security check: each calls next().
\* loggingMiddleware logs the request, tracingMiddleware creates a span and
\* metricsMiddleware records the request when the response finishes.
BeforeSecurity ==
  {"healthCheck", "requestId", "logging", "tracing", "metrics", "performance"}
BeforeRoutes ==
  BeforeSecurity \cup {"security", "rateLimit", "json", "urlencoded", "static",
                       "audit", "debug"}

\* The response of the request req that has reached the middleware in reached.
Served(req, reached, status, body) ==
  [method |-> req.method, path |-> req.path, ip |-> req.ip,
   threat |-> req.threat, reached |-> reached, status |-> status,
   body |-> body,
   logged   |-> "logging" \in reached,
   measured |-> "metrics" \in reached,
   traced   |-> "tracing" \in reached]

\* What follows the rate limiter: express.json, urlencoded, static, audit,
\* debug, the routes, and Express's 404. Status 0: a route handler runs.
AfterRateLimit(req) ==
  IF DebugAnswered(req)
  THEN Served(req, BeforeRoutes, 200, "debug")
  ELSE IF RouteMatched(req)
       THEN Served(req, BeforeRoutes \cup {"route"}, 0, "none")
       ELSE Served(req, BeforeRoutes, 404, "none")

\* A request goes through the chain of app.use(...) in registration order.
HandleRequest(req) ==
  /\ telemetry.initialized
  /\ IF HealthAnswered(req) \/ ThreatFound(req)
     THEN /\ served' =
               IF HealthAnswered(req)
               THEN Served(req, {"healthCheck"}, 200,
                           IF req.path = "/health" THEN "healthy"
                           ELSE IF req.path = "/metrics" THEN "metrics"
                           ELSE "errors")
               ELSE Served(req, BeforeSecurity \cup {"security"}, 400,
                           "Invalid request")
          /\ handled' = NoRequest
          /\ listed' = NoList
          /\ counted' = NoCounts
          /\ settled' = NoCall
          /\ UNCHANGED <<isPostgres, response, errors, trackCalls, trackerOp, env, telemetry, requests, windows, proc,
                         schema, init, news_items, news_seq, votes, now, queue,
                         returned, votesStarted, inOrder, allOnItems>>
     ELSE /\ RateLimit(req.ip)
          /\ served' =
               IF handled'.status = 429
               THEN Served(req, BeforeSecurity \cup {"security", "rateLimit"},
                           429, "Too many requests")
               ELSE AfterRateLimit(req)

\* ------------------------------------------------------------ error tracker
\* The fingerprints generateFingerprint yields for a storage error: tracked
\* without a request, and with the method and path of a request.
Fingerprints == {"Error|locked", "Error|locked|request"}

\* const levels = ['low', 'medium', 'high', 'critical']
levels == <<"low", "medium", "high", "critical">>

Severities == {levels[i] : i \in 1..Len(levels)}

alertThresholds == [critical |-> 1, high |-> 5, medium |-> 10, low |-> 50]

\* levels.indexOf(current), counted from 1.
indexOf(current) == CHOOSE i \in 1..Len(levels) : levels[i] = current

\* Mutant: the level after the last is the first.
getNextSeverityLevelWrapping(current) ==
  levels[(indexOf(current) % Len(levels)) + 1]

\* levels[Math.min(currentIndex + 1, levels.length - 1)]
getNextSeverityLevel(current) ==
  levels[IF indexOf(current) + 1 < Len(levels)
         THEN indexOf(current) + 1 ELSE Len(levels)]

NoTrackCalls == [f \in Fingerprints |-> [count |-> 0, first |-> "none"]]

\* this.errors.has(fingerprint)
MapHas(map, fingerprint) == \E e \in map : e.fingerprint = fingerprint

\* this.errors.get(fingerprint)
MapGet(map, fingerprint) == CHOOSE e \in map : e.fingerprint = fingerprint

\* this.errors.set(fingerprint, entry): the entry replaces the one of its key.
MapSet(map, entry) ==
  {e \in map : e.fingerprint # entry.fingerprint} \cup {entry}

escalateError(error) ==
  [error EXCEPT !.severity = getNextSeverityLevel(error.severity)]

handleRecurringError(error) ==
  IF error.occurrences >= alertThresholds[error.severity] * 5
  THEN escalateError(error)
  ELSE error

\* The other state of the program is left alone by the tracker.
TrackerOnly ==
  /\ settled' = NoCall
  /\ NoOutput
  /\ UNCHANGED <<isPostgres, response, env, telemetry, requests, windows, proc, schema,
                 init, news_items, news_seq, votes, now, queue, returned,
                 votesStarted, inOrder, allOnItems>>

\* trackError(error, context) on the Map: fingerprint is
\* generateFingerprint(error, context), severity is context.severity ||
\* determineSeverity(error).
Track(fingerprint, severity) ==
  /\ trackCalls[fingerprint].count < MaxOccurrences
  /\ IF MapHas(errors, fingerprint)
     THEN LET existingError == MapGet(errors, fingerprint)
              recurred == [existingError EXCEPT !.occurrences = @ + 1]
          IN  /\ errors' = MapSet(errors,
                              IF recurred.occurrences % 10 = 0
                              THEN handleRecurringError(recurred)
                              ELSE recurred)
              /\ trackCalls' = [trackCalls EXCEPT ![fingerprint].count = @ + 1]
     ELSE /\ errors' = MapSet(errors, [fingerprint |-> fingerprint,
                                       severity |-> severity,
                                       occurrences |-> 1,
                                       resolved |-> FALSE])
          /\ trackCalls' = [trackCalls EXCEPT
                              ![fingerprint] = [count |-> 1, first |-> severity]]
  /\ trackerOp' = "trackError"

\* A call of trackError from outside a request.
trackError(fingerprint, severity) ==
  /\ Track(fingerprint, severity)
  /\ TrackerOnly

resolveError(fingerprint) ==
  /\ errors' = IF MapHas(errors, fingerprint)
               THEN MapSet(errors, [MapGet(errors, fingerprint)
                                      EXCEPT !.resolved = TRUE])
               ELSE errors
  /\ trackerOp' = "resolveError"
  /\ UNCHANGED trackCalls
  /\ TrackerOnly

clearResolvedErrors ==
  LET resolved == {e.fingerprint : e \in {d \in errors : d.resolved}}
  IN  /\ errors' = {e \in errors : e.fingerprint \notin resolved}
      /\ trackCalls' = [f \in Fingerprints |->
                          IF f \in resolved THEN NoTrackCalls[f]
                          ELSE trackCalls[f]]
      /\ trackerOp' = "clearResolvedErrors"
      /\ TrackerOnly

\* ----------------------------------------------------------- route handlers
\* The handlers of POST /news, POST /vote and GET / from the request to the
\* response.  A handler is async (req, res) => tracing.traceAsync(...): it
\* runs up to an awaited adapter call, continues when the call has settled,
\* and sends the response itself when every call resolved.  When a call
\* rejects, its catch logs and rethrows, traceAsync rethrows, and the promise
\* the handler returned to the router rejects: the handler takes no next and
\* sends nothing.  Not modelled: the hx-request variant of POST /news.
NoResponse == [route |-> "none", phase |-> "none", responses |-> 0, status |-> 0]

\* The handler is suspended in an await.
Awaiting(route, phase) == [NoResponse EXCEPT !.route = route, !.phase = phase]

\* res.status(status).json(...) / res.send(...): no code of the request is
\* left to run.
Sent(route, status) ==
  [route |-> route, phase |-> "finished", responses |-> response.responses + 1,
   status |-> status]

RouteIdle == Quiescent /\ response.phase = "none" /\ ~settled.err

\* The errors tracked so far: one per adapter call that failed.
Failures == trackCalls["Error|locked"].count
            + trackCalls["Error|locked|request"].count

\* A step of a route handler that issues no statement.
RouteOnly ==
  /\ settled' = NoCall
  /\ NoOutput
  /\ UNCHANGED <<env, isPostgres, telemetry, requests, windows, proc, schema,
                 init, news_items, news_seq, votes, now, queue, returned,
                 votesStarted, inOrder, allOnItems>>

NewsRequest(summary, link, author) ==
  /\ RouteIdle
  /\ PostNews(summary, link, author)
  /\ response' = IF NewsRefused(summary, link, author)
                 THEN Sent("/news", 400)
                 ELSE Awaiting("/news", "awaiting")

VoteRequest(newsId, voteType, source, voterIp) ==
  /\ RouteIdle
  /\ PostVote(newsId, voteType, source, voterIp)
  /\ response' = IF VoteRefused(newsId, voteType)
                 THEN Sent("/vote", 400)
                 ELSE Awaiting("/vote", "awaiting")

\* GET /: up to await db.getNewsItemsBySort(sort).
RootRequest ==
  /\ RouteIdle
  /\ response' = Awaiting("/", "listing")
  /\ UNCHANGED <<errors, trackCalls, trackerOp>>
  /\ RouteOnly

\* GET /: the list has arrived, generateNewsHtml reads the counts of its
\* items and the page is sent.
RenderPage ==
  /\ response.phase = "listing"
  /\ listed # NoList
  /\ response' = Sent("/", 200)
  /\ UNCHANGED <<errors, trackCalls, trackerOp>>
  /\ RouteOnly

\* The awaited db.addNewsItem or db.vote has resolved.
Resume ==
  /\ response.phase = "awaiting"
  /\ settled.outcome = "resolved"
  /\ response' = IF settled.op = "add" THEN Sent("/news", 201)
                 ELSE IF settled.retBool
                      THEN Awaiting("/vote", "counting")
                      ELSE Sent("/vote", 409)
  /\ UNCHANGED <<errors, trackCalls, trackerOp>>
  /\ RouteOnly

\* POST /vote: db.getVoteCounts has resolved and the counts are sent.
SendCounts ==
  /\ response.phase = "counting"
  /\ counted # NoCounts
  /\ response' = Sent("/vote", 200)
  /\ UNCHANGED <<errors, trackCalls, trackerOp>>
  /\ RouteOnly

\* The awaited call of a handler has rejected.
Rejected == settled.err /\ response.phase \in {"awaiting", "listing", "counting"}

\* The router passes the rejection of the handler's promise to next(err)
\* and errorHandlingMiddleware tracks the error and sends the status 500.
errorHandlingMiddleware ==
  /\ Rejected
  /\ \E severity \in {"medium", "high"} : Track("Error|locked|request", severity)
  /\ response' = Sent(response.route, 500)
  /\ RouteOnly

\* The router does not look at the promise the handler returned: the
\* rejection reaches process.on('unhandledRejection'), which tracks the
\* error, and no code of the request is left to run.
unhandledRejection ==
  /\ Rejected
  /\ Track("Error|locked", "high")
  /\ response' = [response EXCEPT !.phase = "finished"]
  /\ RouteOnly

\* The connection of the request is gone; the next request arrives.
NextRequest ==
  /\ response.phase = "finished"
  /\ response' = NoResponse
  /\ UNCHANGED <<errors, trackCalls, trackerOp>>
  /\ RouteOnly

\* ---------------------------------------------------- schema initialization
\* The constructor has run: the CREATE statements are pending; on SQLite the
\* two migrations follow them.
Constructed(runs, first) ==
  [create |-> "pending", votes |-> "get", news_items |-> "get",
   errors |-> 0, runs |-> runs, first |-> first]

\* The initialization of the first run on an empty database has completed.
Initialized ==
  [create |-> "done", votes |-> "done", news_items |-> "done",
   errors |-> 0, runs |-> 0, first |-> EmptySchema]

MigratedTables == {"votes", "news_items"}

\* initializeTables: db.exec(sql).  exec holds the handle exclusively, so the
\* PRAGMA statements issued after it run after it.
InitializeTables ==
  /\ ~isPostgres
  /\ init.create = "pending"
  /\ schema' = CreateIfNotExists(schema)
  /\ init' = [init EXCEPT !.create = "done"]
  /\ settled' = NoCall
  /\ NoOutput
  /\ UNCHANGED <<isPostgres, response, errors, trackCalls, trackerOp, env, telemetry, requests, windows, proc, news_items, news_seq, votes, now, queue,
                 returned, votesStarted, inOrder, allOnItems>>

\* initializePostgresTables: the CREATE statements only, no migration.
InitializePostgresTables ==
  /\ isPostgres
  /\ init.create = "pending"
  /\ schema' = CreateIfNotExists(schema)
  /\ init' = [init EXCEPT !.create = "done", !.votes = "done",
                          !.news_items = "done"]
  /\ settled' = NoCall
  /\ NoOutput
  /\ UNCHANGED <<isPostgres, response, errors, trackCalls, trackerOp, env, telemetry, requests, windows, proc, news_items, news_seq, votes, now, queue,
                 returned, votesStarted, inOrder, allOnItems>>

\* db.get("PRAGMA table_info(table)") completes: its callback issues db.all.
PragmaGet(table) ==
  /\ ~isPostgres
  /\ init.create = "done"
  /\ init[table] = "get"
  /\ init' = [init EXCEPT ![table] = "all"]
  /\ settled' = NoCall
  /\ NoOutput
  /\ UNCHANGED <<isPostgres, response, errors, trackCalls, trackerOp, env, telemetry, requests, windows, proc, schema, news_items, news_seq, votes, now,
                 queue, returned, votesStarted, inOrder, allOnItems>>

\* db.all("PRAGMA table_info(table)") completes: its callback issues the
\* ALTER TABLE when no column of the table has the name.
PragmaAll(table) ==
  /\ init[table] = "all"
  /\ init' = [init EXCEPT
                ![table] = IF HasColumn(schema, table, MigratedColumn(table))
                           THEN "done" ELSE "alter"]
  /\ settled' = NoCall
  /\ NoOutput
  /\ UNCHANGED <<isPostgres, response, errors, trackCalls, trackerOp, env, telemetry, requests, windows, proc, schema, news_items, news_seq, votes, now,
                 queue, returned, votesStarted, inOrder, allOnItems>>

\* db.exec(ALTER TABLE ...) runs: on a table that has the column it fails
\* with "duplicate column name" and exec stops there.
ExecAlter(table) ==
  /\ init[table] = "alter"
  /\ IF MigratedColumn(table) \in schema[table]
     THEN /\ init' = [init EXCEPT ![table] = "done", !.errors = @ + 1]
          /\ schema' = schema
     ELSE /\ init' = [init EXCEPT ![table] = "done"]
          /\ schema' = AddColumn(schema, table)
  /\ settled' = NoCall
  /\ NoOutput
  /\ UNCHANGED <<isPostgres, response, errors, trackCalls, trackerOp, env, telemetry, requests, windows, proc, news_items, news_seq, votes, now, queue,
                 returned, votesStarted, inOrder, allOnItems>>

\* The process ends and is started again on the same database.
Restart ==
  /\ InitDone
  /\ Quiescent
  /\ init.runs + 1 < MaxRuns
  /\ init' = Constructed(init.runs + 1,
                         IF init.runs = 0 THEN schema ELSE init.first)
  /\ settled' = NoCall
  /\ NoOutput
  /\ UNCHANGED <<isPostgres, response, errors, trackCalls, trackerOp, env, telemetry, requests, windows, proc, schema, news_items, news_seq, votes, now,
                 queue, returned, votesStarted, inOrder, allOnItems>>

\* The statement at i names a column that its table lacks: it fails.
ExecMissingColumn(i) ==
  /\ CanExec(i)
  /\ MissingColumn(queue[i])
  /\ Raise(i)
  /\ inOrder' = (inOrder /\ i = 1)
  /\ NoOutput
  /\ UNCHANGED <<isPostgres, response, errors, trackCalls, trackerOp, env, telemetry, requests, windows, proc, schema, init, news_items, news_seq, votes,
                 now, returned, votesStarted, allOnItems>>

\* The process is constructed on an empty database or on one that the
\* previous version of the adapter created.
InitSchema ==
  /\ isPostgres \in BOOLEAN
  /\ schema \in {EmptySchema, OlderSchema}
  /\ init = Constructed(0, EmptySchema)
  /\ news_items = <<>>
  /\ news_seq = 0
  /\ votes = {}
  /\ now = 0
  /\ queue = <<>>
  /\ settled = NoCall
  /\ returned = <<>>
  /\ listed = NoList
  /\ counted = NoCounts
  /\ votesStarted = 0
  /\ handled = NoRequest
  /\ proc = [state |-> "running", closeCalls |-> 0, exitCode |-> 0]
  /\ requests = NoRecords
  /\ windows = NoRecords
  /\ env = DefaultEnv
  /\ telemetry = [initialized |-> TRUE, config |-> loadConfig(DefaultEnv)]
  /\ served = NoServed
  /\ errors = {}
  /\ trackCalls = NoTrackCalls
  /\ trackerOp = "none"
  /\ response = NoResponse
  /\ inOrder = TRUE
  /\ allOnItems = TRUE

\* The server is started with some environment.
InitChain ==
  /\ env \in Envs
  /\ telemetry = NotInitialized
  /\ isPostgres \in BOOLEAN
  /\ schema = NewestSchema
  /\ init = Initialized
  /\ news_items = <<>>
  /\ news_seq = 0
  /\ votes = {}
  /\ now = 0
  /\ queue = <<>>
  /\ settled = NoCall
  /\ returned = <<>>
  /\ listed = NoList
  /\ counted = NoCounts
  /\ votesStarted = 0
  /\ handled = NoRequest
  /\ served = NoServed
  /\ errors = {}
  /\ trackCalls = NoTrackCalls
  /\ trackerOp = "none"
  /\ response = NoResponse
  /\ proc = [state |-> "running", closeCalls |-> 0, exitCode |-> 0]
  /\ requests = NoRecords
  /\ windows = NoRecords
  /\ inOrder = TRUE
  /\ allOnItems = TRUE

\* ---------------------------------------------------------------- shutdown
Signals == {"SIGINT", "SIGTERM"}

\* SIGINT / SIGTERM: every listener runs up to its first await.  The
\* telemetry listener logs and awaits tracing.shutdown(); the server's
\* listener logs, calls db.close() and awaits.
Signal(sig) ==
  /\ proc.state = "running"
  /\ proc' = [proc EXCEPT !.state = "closing", !.closeCalls = @ + 1]
  /\ settled' = NoCall
  /\ NoOutput
  /\ UNCHANGED <<isPostgres, response, errors, trackCalls, trackerOp, env, telemetry, requests, windows, schema, init, news_items, news_seq, votes, now,
                 queue, returned, votesStarted, inOrder, allOnItems>>

\* The server's listener resumes after its await: process.exit(0).  It is the
\* next thing to run once the listeners have returned.
Exit ==
  /\ proc.state = "closing"
  /\ proc' = [proc EXCEPT !.state = "exited", !.exitCode = 0]
  /\ settled' = NoCall
  /\ NoOutput
  /\ UNCHANGED <<isPostgres, response, errors, trackCalls, trackerOp, env, telemetry, requests, windows, schema, init, news_items, news_seq, votes, now,
                 queue, returned, votesStarted, inOrder, allOnItems>>

\* process.on('uncaughtException'): log, track, process.exit(1).
UncaughtException ==
  /\ proc.state = "running"
  /\ proc' = [proc EXCEPT !.state = "exited", !.exitCode = 1]
  /\ settled' = NoCall
  /\ NoOutput
  /\ UNCHANGED <<isPostgres, response, errors, trackCalls, trackerOp, env, telemetry, requests, windows, schema, init, news_items, news_seq, votes, now,
                 queue, returned, votesStarted, inOrder, allOnItems>>

Init ==
  /\ isPostgres \in BOOLEAN
  /\ news_items = <<>>
  /\ news_seq = 0
  /\ votes = {}
  /\ now = 0
  /\ queue = <<>>
  /\ settled = NoCall
  /\ returned = <<>>
  /\ listed = NoList
  /\ counted = NoCounts
  /\ votesStarted = 0
  /\ handled = NoRequest
  /\ proc = [state |-> "running", closeCalls |-> 0, exitCode |-> 0]
  /\ schema = NewestSchema
  /\ init = Initialized
  /\ requests = NoRecords
  /\ windows = NoRecords
  /\ env = DefaultEnv
  /\ telemetry = [initialized |-> TRUE, config |-> loadConfig(DefaultEnv)]
  /\ served = NoServed
  /\ errors = {}
  /\ trackCalls = NoTrackCalls
  /\ trackerOp = "none"
  /\ response = NoResponse
  /\ inOrder = TRUE
  /\ allOnItems = TRUE

Tick ==
  /\ now < MaxTime
  /\ now' = now + 1
  /\ NoOutput
  /\ settled' = NoCall
  /\ UNCHANGED <<isPostgres, response, errors, trackCalls, trackerOp, env, telemetry, requests, windows, proc, schema, init, news_items, news_seq, votes, queue,
                 returned, votesStarted, inOrder, allOnItems>>

\* ================================================================= claims
\* Ledger rows of item n with the given source and type, counted directly.
LedgerCount(vs, n, source, type) ==
  Cardinality({v \in vs : /\ v.news_item_id = n
                          /\ v.vote_source = source
                          /\ v.vote_type = type})

LedgerUps(vs, n)   == LedgerCount(vs, n, "human", "up") + LedgerCount(vs, n, "machine", "up")
LedgerDowns(vs, n) == LedgerCount(vs, n, "human", "down") + LedgerCount(vs, n, "machine", "down")

\* The triple of call has a row of the given type in vs.
HasVote(vs, call, type) ==
  \E v \in vs : /\ SameTriple(v, call.newsItemId, call.voterIp, call.voteSource)
                /\ v.vote_type = type

TripleRows(vs, call) ==
  {v \in vs : SameTriple(v, call.newsItemId, call.voterIp, call.voteSource)}

OtherRows(vs, call) == vs \ TripleRows(vs, call)

\* Under SpecSerial: this step executes the pending statement of the one
\* call in flight.
SerialExec == queue # <<>> /\ queue' # queue

C2_OneRowPerTriple ==
  \A v, w \in votes :
    SameTriple(v, w.news_item_id, w.voter_ip, w.vote_source) => v = w

\* Two calls raced on one triple: the second INSERT was refused.
C2_Witness ==
  /\ settled.op = "vote" /\ settled.outcome = "rejected"
  /\ TripleRows(votes, settled) # {}

\* What a step that executes a statement of a vote call, or completes the
\* call, must satisfy.
C3_Step ==
  /\ (SerialExec /\ queue[1].pc = "lookup") =>
        LET call == queue[1]
            had  == HasVote(votes, call, call.voteType)
            retFalse == /\ queue' = <<>>
                        /\ settled'.outcome = "resolved"
                        /\ ~settled'.retBool
        IN  /\ had <=> retFalse
            /\ had => (votes' = votes /\ news_items' = news_items)
  /\ (settled'.op = "vote" /\ settled'.outcome = "resolved" /\ settled'.retBool) =>
        HasVote(votes', settled', settled'.voteType)
  /\ (settled'.op = "vote" /\ settled'.newsItemId \in DOMAIN news_items) =>
        settled'.outcome = "resolved"

\* C3: vote returns false exactly when the triple's row already holds the
\* same vote_type, and then changes neither the ledger nor any vote_score;
\* any other call on a news item returns true with the triple's row holding
\* the new vote_type.
C3_SameVoteIsNoOp == [][C3_Step]_vars

\* The same vote cast again: false, with the row and the score as they were.
C3_Witness ==
  /\ settled.op = "vote" /\ settled.outcome = "resolved" /\ ~settled.retBool
  /\ HasVote(votes, settled, settled.voteType)
  /\ settled.newsItemId \in DOMAIN news_items
  /\ news_items[settled.newsItemId].vote_score # 0

\* What the lookup, the UPDATE and the completion of an overwriting vote
\* call must satisfy.
C4_Step ==
  /\ (SerialExec /\ queue[1].pc = "lookup"
        /\ \E t \in VoteTypes \ {queue[1].voteType} : HasVote(votes, queue[1], t)) =>
        (queue' # <<>> /\ queue'[1].pc = "update")
  /\ (SerialExec /\ queue[1].pc = "update") =>
        LET call == queue[1]
        IN  /\ Cardinality(TripleRows(votes, call)) = 1
            /\ Cardinality(TripleRows(votes', call)) = 1
            /\ \A v \in TripleRows(votes', call) : v.vote_type = call.voteType
            /\ OtherRows(votes', call) = OtherRows(votes, call)
            /\ queue' # <<>> /\ queue'[1].pc = "aggregate"
  /\ (settled'.op = "vote" /\ settled'.existingVote \notin {"none", settled'.voteType}) =>
        /\ settled'.outcome = "resolved" /\ settled'.retBool
        /\ Cardinality(TripleRows(votes', settled')) = 1
        /\ HasVote(votes', settled', settled'.voteType)

\* C4: a vote of the opposite type on a triple that has a row returns true,
\* leaves exactly one row for the triple, now of the new type, and changes no
\* row of another triple.
C4_OppositeVoteOverwrites == [][C4_Step]_vars

\* An overwrite has returned true, next to a row of another triple.
C4_Witness ==
  /\ settled.op = "vote" /\ settled.outcome = "resolved" /\ settled.retBool
  /\ settled.existingVote = "up" /\ settled.voteType = "down"
  /\ HasVote(votes, settled, "down")
  /\ OtherRows(votes, settled) # {}

\* What a statement of a vote call and a getVoteCounts must satisfy with
\* respect to the other source.
C5_Step ==
  /\ (SerialExec /\ queue[1].op = "vote") =>
        LET call == queue[1]
        IN  /\ {v \in votes' : v.vote_source # call.voteSource}
                 = {v \in votes : v.vote_source # call.voteSource}
            /\ (call.pc = "lookup" /\ TripleRows(votes, call) = {}) =>
                  (queue' # <<>> /\ queue'[1].pc = "insert")
            /\ (call.pc = "insert" /\ TripleRows(votes, call) = {}
                  /\ call.newsItemId \in DOMAIN news_items) =>
                  (queue' # <<>> /\ HasVote(votes', call, call.voteType))
  /\ (counted'.newsItemId # 0) =>
        /\ counted'.human_upvotes =
             LedgerCount(votes', counted'.newsItemId, "human", "up")
        /\ counted'.machine_upvotes =
             LedgerCount(votes', counted'.newsItemId, "machine", "up")

\* C5: human and machine votes are tracked independently: a vote of one
\* source is neither refused nor turned into an overwrite by a row of the
\* other source, it changes no row of the other source, and getVoteCounts
\* counts each source's rows apart.
C5_SourcesIndependent == [][C5_Step]_vars

\* One IP has upvoted one item as human and as machine.
C5_Witness ==
  /\ counted.human_upvotes = 1 /\ counted.machine_upvotes = 1
  /\ Cardinality(votes) = 2
  /\ \E ip \in VoterIps : \A v \in votes :
        /\ v.voter_ip = ip
        /\ v.news_item_id = counted.newsItemId
        /\ v.vote_type = "up"

\* The step executes the statement at position i of the queue.
ExecutedAt(i) ==
  /\ i \in 1..Len(queue)
  /\ \/ queue' = Dequeue(i)
     \/ /\ Len(queue') = Len(queue)
        /\ SubSeq(queue', 1, Len(queue) - 1) = Dequeue(i)
        /\ queue' # queue

\* The call has executed its first statement and not yet its last.
InSection(call) ==
  call.op = "vote" /\ call.pc \in {"insert", "update", "aggregate", "score"}

\* No statement of a vote call executes while another vote call on the same
\* news item is inside its section.
C6_Step ==
  \A i \in 1..Len(queue) :
    (ExecutedAt(i) /\ queue[i].op = "vote"
       /\ queue[i].newsItemId \in DOMAIN news_items) =>
      ~\E j \in 1..Len(queue) :
          /\ j # i
          /\ InSection(queue[j])
          /\ queue[j].newsItemId = queue[i].newsItemId

\* C6: on both backends the statements of a vote call form a critical
\* section: between its first and its last statement no statement of another
\* vote call on the same news item executes.
C6_CriticalSection == [][C6_Step]_vars

\* C7: no lost update: when the statements executed in the order of issue
\* and every call has completed, vote_score is ups minus downs of the rows
\* then in the ledger, however the calls interleaved.
C7_NoLostUpdate ==
  (Quiescent /\ inOrder /\ allOnItems) =>
    \A n \in DOMAIN news_items :
      news_items[n].vote_score = LedgerUps(votes, n) - LedgerDowns(votes, n)

\* Two calls on one item interleaved: the first has written back a score
\* that misses the row of the second, which is still to recompute.
C7_Witness ==
  /\ inOrder /\ allOnItems
  /\ settled.op = "vote" /\ settled.outcome = "resolved" /\ settled.retBool
  /\ Len(queue) = 1
  /\ queue[1].pc \in {"aggregate", "score"}
  /\ queue[1].newsItemId = settled.newsItemId
  /\ settled.newsItemId \in DOMAIN news_items
  /\ news_items[settled.newsItemId].vote_score
       # LedgerUps(votes, settled.newsItemId) - LedgerDowns(votes, settled.newsItemId)

\* What a step that returns counts must satisfy.
C8_Step ==
  (counted'.newsItemId # 0) =>
    LET n == counted'.newsItemId
    IN  /\ counted'.human_upvotes     = LedgerCount(votes, n, "human", "up")
        /\ counted'.human_downvotes   = LedgerCount(votes, n, "human", "down")
        /\ counted'.machine_upvotes   = LedgerCount(votes, n, "machine", "up")
        /\ counted'.machine_downvotes = LedgerCount(votes, n, "machine", "down")
        /\ UNCHANGED <<news_items, news_seq, votes, queue, returned, now>>

\* C8: getVoteCounts returns, per source and type, the number of the item's
\* ledger rows (0 where there are none) and modifies nothing.
C8_CountsMatchLedger == [][C8_Step]_vars

C8_Witness ==
  /\ counted.newsItemId # 0
  /\ counted.human_upvotes = 1 /\ counted.human_downvotes = 0
  /\ counted.machine_upvotes = 0 /\ counted.machine_downvotes = 1

\* What a step in which addNewsItem returns an id must satisfy.
C9_Step ==
  (returned' # returned) =>
    \E id \in 1..(MaxItems + 1) :
      /\ returned' = Append(returned, id)
      /\ \A k \in 1..Len(returned) : returned[k] < id
      /\ settled'.op = "add" /\ settled'.retId = id
      /\ id \notin DOMAIN news_items
      /\ id \in DOMAIN news_items'
      /\ news_items'[id].vote_score = 0

\* C9: every id addNewsItem returns is greater than every id returned
\* before, and the new item starts with vote_score 0.
C9_IdsIncrease == [][C9_Step]_vars

\* Two calls were in flight together and both have returned.
C9_Witness ==
  /\ Len(returned) = 2
  /\ ~inOrder
  /\ settled.op = "add" /\ settled.retId = returned[2]

\* What a step that returns the 'new' listing, and a step that keeps the set
\* of items, must satisfy.
C10_Step ==
  /\ (listed'.sortType = "new") =>
        LET rows == listed'.rows
        IN  /\ Len(rows) = Cardinality(DOMAIN news_items)
            /\ {rows[k] : k \in 1..Len(rows)} = DOMAIN news_items
            /\ \A k \in 1..(Len(rows) - 1) :
                  news_items[rows[k]].created_at
                    >= news_items[rows[k + 1]].created_at
            /\ news_items' = news_items
  /\ (DOMAIN news_items' = DOMAIN news_items) =>
        QueryResults("new")' = QueryResults("new")

\* C10: getNewsItemsBySort('new') returns every item exactly once in
\* non-increasing created_at order, and a change of vote_score does not
\* change the order.
C10_NewIgnoresScore == [][C10_Step]_vars

\* The newer item comes first although it has the lower score.
C10_Witness ==
  /\ listed.sortType = "new"
  /\ Len(listed.rows) = 2
  /\ news_items[listed.rows[1]].created_at > news_items[listed.rows[2]].created_at
  /\ news_items[listed.rows[1]].vote_score < news_items[listed.rows[2]].vote_score

\* What a step that returns the 'top' listing, and a step of the clock, must
\* satisfy.
C11_Step ==
  /\ (listed'.sortType = "top") =>
        LET rows == listed'.rows
            today == {n \in DOMAIN news_items :
                        news_items[n].created_at \div TicksPerDay
                          = now \div TicksPerDay}
        IN  /\ {rows[k] : k \in 1..Len(rows)} = today
            /\ Len(rows) = Cardinality(today)
            /\ \A k \in 1..(Len(rows) - 1) :
                  \/ news_items[rows[k]].vote_score > news_items[rows[k + 1]].vote_score
                  \/ /\ news_items[rows[k]].vote_score = news_items[rows[k + 1]].vote_score
                     /\ news_items[rows[k]].created_at >= news_items[rows[k + 1]].created_at
  /\ (now' \div TicksPerDay # now \div TicksPerDay
        /\ news_items' = news_items /\ votes' = votes) =>
        \A r \in QueryResults("top"), q \in QueryResults("top")' :
          \A k \in 1..Len(r) : \A j \in 1..Len(q) : q[j] # r[k]

\* C11: getNewsItemsBySort('top') returns exactly the items created on the
\* current calendar day, by vote_score descending then created_at descending;
\* an item of an earlier day is never returned whatever its score, so an item
\* in 'top' leaves it when the day advances, with no vote or write.
C11_TopIsTodayOnly == [][C11_Step]_vars

\* 'top' leaves out the item with the highest score, created the day before.
C11_Witness ==
  /\ listed.sortType = "top"
  /\ Len(listed.rows) = 1
  /\ \E n \in DOMAIN news_items :
        /\ news_items[n].created_at \div TicksPerDay < now \div TicksPerDay
        /\ news_items[n].vote_score > news_items[listed.rows[1]].vote_score

\* The request handled in this step was answered 400 and nothing was passed
\* to the adapter or changed in the tables.
RefusedUntouched ==
  /\ handled'.status = 400
  /\ UNCHANGED <<news_items, news_seq, votes, queue, returned>>

\* What the stored items, and a POST /news with an empty or blank summary,
\* must satisfy.
C12_Step ==
  /\ \A n \in DOMAIN news_items' :
        LET summary == news_items'[n].summary
        IN  /\ summary.pad + summary.core > 0
            /\ summary.pad = 0
            /\ summary.pad + summary.core <= 200
  /\ (handled'.route = "/news"
        /\ (~handled'.summary.given \/ handled'.summary.core = 0)) =>
        (queue' = queue /\ news_items' = news_items)

\* C12: every item stored through POST /news has a summary that is
\* non-empty, has no surrounding whitespace and is at most 200 characters
\* long; a request whose summary is empty or blank creates no item.
C12_StoredSummaryValid == [][C12_Step]_vars

\* What the author passed on by POST /news, and the author stored by the
\* INSERT, must satisfy.
C13_Step ==
  /\ (handled'.route = "/news" /\ handled'.status = 0) =>
        LET given == handled'.author
            passed == queue'[Len(queue')].author
        IN  IF ~given.given \/ given.core = 0
            THEN passed = [given |-> TRUE, pad |-> 0, core |-> 9]
            ELSE /\ passed = [given |-> TRUE, pad |-> 0, core |-> given.core]
                 /\ passed.core <= 50
  /\ (settled'.op = "add" /\ settled'.outcome = "resolved") =>
        news_items'[settled'.retId].author = settled'.author

\* C13: the author stored for a created item is "Anonymous" whenever the
\* request's author is absent, empty or blank, and is otherwise the given
\* author without surrounding whitespace, at most 50 characters long.
C13_AuthorDefaults == [][C13_Step]_vars

\* What an invalid POST /news and an invalid POST /vote must satisfy.
C14_Step ==
  /\ (handled'.route = "/news"
        /\ \/ ~handled'.summary.given
           \/ handled'.summary.pad + handled'.summary.core = 0
           \/ handled'.link \in {"undefined", ""}
           \/ handled'.summary.pad + handled'.summary.core > 200
           \/ /\ handled'.author.given
              /\ handled'.author.pad + handled'.author.core > 50
           \/ handled'.link = "not-a-url") => RefusedUntouched
  /\ (handled'.route = "/vote"
        /\ \/ handled'.newsId = NoNewsId
           \/ handled'.voteType \notin {"up", "down"}) => RefusedUntouched

C15_Step ==
  (handled'.route = "/vote"
     /\ handled'.source \notin {"undefined", "human", "machine"}) =>
     RefusedUntouched

\* C15: a vote request whose vote_source is given and is neither human nor
\* machine is answered with a validation error and records no vote: no ledger
\* row is inserted or overwritten and no vote_score changes.
C15_InvalidSourceRefused == [][C15_Step]_vars

\* What a step in which a storage statement fails must satisfy.
C16_Step ==
  settled'.err =>
    /\ settled'.outcome = "rejected"
    /\ ~settled'.retBool /\ settled'.retId = 0
    /\ returned' = returned
    /\ listed' = NoList /\ counted' = NoCounts
    /\ \A k \in 1..Len(queue') : queue'[k] \in {queue[j] : j \in 1..Len(queue)}
    /\ settled'.op \in {"vote", "add"} => Len(queue') = Len(queue) - 1

\* C16: an adapter operation in which a storage statement fails ends by
\* raising the failure to its caller: it returns no id, list, boolean or
\* counts, and it issues no further statement (no retry).
C16_FailureRaised == [][C16_Step]_vars

\* The UPDATE of news_items failed after the vote row was written.
C16_Witness ==
  /\ settled.err /\ settled.op = "vote" /\ settled.pc = "score"
  /\ settled.outcome = "rejected"
  /\ HasVote(votes, settled, settled.voteType)

\* C17: on every path by which the process shuts down (SIGINT, SIGTERM, an
\* uncaught exception) the adapter's close() has been called before the
\* process exits, and it is called at most once.
C17_ClosedBeforeExit ==
  /\ proc.closeCalls <= 1
  /\ proc.state = "exited" => proc.closeCalls = 1

\* C18: schema initialization is idempotent: once one run has completed,
\* further runs leave the schema as that run left it, and a migration issues
\* its ALTER TABLE only when the table's metadata lacks the column, so that
\* no ALTER TABLE is run on a table that has the column.
C18_InitIdempotent ==
  /\ init.errors = 0
  /\ init.runs >= 1 => schema = init.first

\* A third run has completed on a database that the first run migrated.
C18_Witness ==
  /\ init.runs = MaxRuns - 1
  /\ InitDone
  /\ "idx_votes_unique" \in schema.indexes
  /\ init.first = schema

\* A vote call's lookup or INSERT runs for a triple that no stored row has,
\* on an item that exists: the statement does not fail.
C19_Step ==
  (/\ InitDone
   /\ queue # <<>>
   /\ queue[1].pc \in {"lookup", "insert"}
   /\ queue[1].newsItemId \in DOMAIN news_items
   /\ ~\E v \in votes : SameTriple(v, queue[1].newsItemId, queue[1].voterIp,
                                   queue[1].voteSource)
   /\ settled' # NoCall)
  => ~settled'.err

\* C19: after initialization both backends enforce the same constraints
\* whether the database started empty or with the older tables (summary
\* length, vote_type, vote_source, uniqueness on exactly the triple item,
\* voter, source), so that on an upgraded database a human vote and a machine
\* vote from one address on one item can both be stored.
C19_SameConstraintsAfterInit ==
  /\ [](InitDone => /\ schema.checks = NewestSchema.checks
                    /\ schema.uniques = {VotesTriple})
  /\ [][C19_Step]_vars

\* A request from ip is handled by the rate limiter in this step.
C20_Request(ip) == handled'.route = "*" /\ handled'.voterIp = ip

\* The request of this step arrives within the current window of ip.
C20_InWindow(ip) ==
  ip \in DOMAIN windows /\ now <= windows[ip].opened + windowMs

C20_Step ==
  \A ip \in RateIps :
     C20_Request(ip) =>
       /\ C20_InWindow(ip) /\ windows[ip].passed >= max
            => /\ handled'.status = 429
               /\ requests'[ip].resetTime = requests[ip].resetTime
       /\ ~C20_InWindow(ip)
            => /\ handled'.status = 0
               /\ requests'[ip] = [count |-> 1, resetTime |-> now + windowMs]
       /\ \A other \in DOMAIN requests \ {ip} :
             requests'[other] = requests[other]

\* C20: of the requests from one ip that arrive no later than windowMs after
\* the request that opened its current window at most max are passed on; every
\* further one is answered 429 without extending the window; the first request
\* after the window's reset time is passed on and opens a new window with
\* count 1; requests from other ips never affect an ip's count.
C20_RateLimited ==
  /\ [](\A ip \in DOMAIN windows : windows[ip].passed <= max)
  /\ [][C20_Step]_vars

\* A request was refused with 429 while another ip had a window open, and the
\* refused ip's window has since ended and a new one was opened.
C20_Witness ==
  /\ handled.route = "*"
  /\ handled.status = 0
  /\ DOMAIN requests = RateIps
  /\ \E ip \in RateIps :
        /\ handled.voterIp = ip
        /\ requests[ip].count = 1
        /\ windows[ip].opened > windowMs
        /\ \E other \in RateIps \ {ip} : requests[other].count > max

\* C21: a GET /health request is answered with status "healthy" in every
\* telemetry mode and whatever the rate-limit state of the requesting ip, and
\* it reaches neither the rate limiter nor the security check nor a route
\* handler.
C21_HealthAlwaysWorks ==
  served.method = "GET" /\ served.path = "/health"
    => /\ served.status = 200
       /\ served.body = "healthy"
       /\ served.reached \cap {"rateLimit", "security", "route"} = {}

\* GET /health is answered in disabled mode from an ip that is being refused.
C21_Witness ==
  /\ served.method = "GET"
  /\ served.path = "/health"
  /\ served.body = "healthy"
  /\ ~isEnabled(telemetry.config)
  /\ env.DISABLE_TELEMETRY
  /\ served.ip \in DOMAIN requests
  /\ requests[served.ip].count > max

\* C22: an observability endpoint is served only when the configuration
\* enables it: when telemetry is disabled or endpoints.metrics is false, GET
\* /metrics is not served, and when telemetry is disabled or endpoints.debug
\* is false, GET /debug and POST /debug/dump are not served.
C22_EndpointsOnlyWhenEnabled ==
  /\ (/\ served.method = "GET"
      /\ served.path = "/metrics"
      /\ ~isEndpointEnabled(telemetry.config, "metrics"))
       => served.status # 200
  /\ (/\ \/ served.method = "GET" /\ served.path = "/debug"
         \/ served.method = "POST" /\ served.path = "/debug/dump"
      /\ ~isEndpointEnabled(telemetry.config, "debug"))
       => served.status # 200

\* C23: in disabled mode (DISABLE_TELEMETRY=true, any TELEMETRY_MODE and
\* NODE_ENV) handling a request produces no log entry, records no metric and
\* creates no trace span.
C23_DisabledIsSilent ==
  (served # NoServed /\ env.DISABLE_TELEMETRY)
    => ~served.logged /\ ~served.measured /\ ~served.traced

\* C24: with TELEMETRY_MODE=full and NODE_ENV=production (DISABLE_TELEMETRY
\* not true) the loaded configuration has isEnabled, isLoggingEnabled and
\* isMetricsEnabled true and the debug endpoint off; with
\* TELEMETRY_MODE=minimal it has logging enabled at error level, metrics and
\* tracing disabled and the health endpoint enabled.
C24_ModesAsDocumented ==
  (telemetry.initialized /\ ~env.DISABLE_TELEMETRY)
    => /\ (env.TELEMETRY_MODE = "full" /\ env.NODE_ENV = "production")
            => /\ isEnabled(telemetry.config)
               /\ isLoggingEnabled(telemetry.config)
               /\ isMetricsEnabled(telemetry.config)
               /\ ~telemetry.config.endpoints.debug
       /\ env.TELEMETRY_MODE = "minimal"
            => /\ isLoggingEnabled(telemetry.config)
               /\ telemetry.config.logging.level = "error"
               /\ ~isMetricsEnabled(telemetry.config)
               /\ ~isTracingEnabled(telemetry.config)
               /\ isEndpointEnabled(telemetry.config, "health")

\* C25: a request that carries a suspicious pattern in its body, query string
\* or route parameters is answered 400 by the security middleware and never
\* reaches a route handler.
C25_ThreatsBlocked ==
  (served # NoServed /\ served.threat # "none")
    => /\ served.status = 400
       /\ "security" \in served.reached
       /\ "route" \notin served.reached

\* C26: for any interleaving of two concurrent vote calls with the same
\* (item, voter_ip, vote_source), starting without a row for it, the call whose
\* write executes second overwrites the row of the first: neither call
\* attempts a second insert that ends in a uniqueness-violation error.  (On
\* an existing item with a valid vote type and source the only constraint
\* that can refuse the INSERT is the uniqueness of the triple.)
C26_SecondWriteOverwrites ==
  ~(/\ settled.op = "vote"
    /\ settled.pc = "insert"
    /\ settled.err
    /\ settled.newsItemId \in DOMAIN news_items)

\* C27: a vote call is all-or-nothing with respect to failure: whenever no
\* vote call is in progress, also after a vote call ended with a storage
\* error in either of its steps, each item's vote_score equals ups minus
\* downs of its ledger rows.
C27_AllOrNothing ==
  (Quiescent /\ allOnItems) =>
    \A n \in DOMAIN news_items :
      news_items[n].vote_score = LedgerUps(votes, n) - LedgerDowns(votes, n)

\* C29: every row of votes names, in news_item_id, the id of an existing news
\* item, on either backend: a vote call naming an id that is not in
\* news_items stores no row.
C29_VotesOnExistingItems ==
  \A v \in votes : v.news_item_id \in DOMAIN news_items

\* C30: after any sequence of trackError, resolveError and clearResolvedErrors
\* calls the tracker holds at most one entry per fingerprint and each entry's
\* occurrences is the number of trackError calls with its fingerprint since
\* the entry was created; clearResolvedErrors removes exactly the entries
\* marked resolved; and no call lowers an entry's severity: it stays or rises
\* by one level, never beyond critical.
C30_Entries ==
  /\ \A e, d \in errors : e.fingerprint = d.fingerprint => e = d
  /\ \A e \in errors : e.occurrences = trackCalls[e.fingerprint].count
  /\ \A e \in errors : e.severity \in Severities

C30_Step ==
  /\ trackerOp' = "clearResolvedErrors" =>
        errors' = {e \in errors : ~e.resolved}
  /\ \A e \in errors, d \in errors' :
        e.fingerprint = d.fingerprint =>
          indexOf(d.severity) - indexOf(e.severity) \in {0, 1}

C30_TrackerConsistent == []C30_Entries /\ [][C30_Step]_vars

\* An escalated entry is still held after clearResolvedErrors removed another.
C30_Witness ==
  /\ trackerOp = "clearResolvedErrors"
  /\ \E f \in Fingerprints : trackCalls[f].count = 0 /\ ~MapHas(errors, f)
  /\ \E e \in errors :
        /\ e.severity # trackCalls[e.fingerprint].first
        /\ e.occurrences = trackCalls[e.fingerprint].count

\* C28: every POST /news, POST /vote and GET / request that reaches its route
\* handler receives exactly one response, also when the adapter call of the
\* handler fails: once no code of the request is left to run, one response
\* has been sent.
C28_ExactlyOneResponse ==
  response.phase = "finished" => response.responses = 1

\* ---------------------------------------------------------- specifications
\* Requests arrive while earlier calls are in flight: up to NumCalls calls
\* have statements pending on the handle.
Next ==
  \/ \E n \in NewsItemIds, t \in VoteTypes, ip \in VoterIps,
        s \in VoteSourceArgs :
          votesStarted < ConcVotes /\ Vote(n, t, ip, s) /\ handled' = NoRequest /\ response' = response
  \/ \E len \in SummaryLens :
        AddNewsItem(Text(0, len), Undefined) /\ handled' = NoRequest /\ response' = response
  \/ \E i \in 1..NumCalls : ExecLookup(i)
  \/ \E i \in 1..NumCalls : ExecInsertVote(i)
  \/ \E i \in 1..NumCalls : ExecUpdateVote(i)
  \/ \E i \in 1..NumCalls : ExecAggregate(i)
  \/ \E i \in 1..NumCalls : ExecUpdateScore(i)
  \/ \E i \in 1..NumCalls : ExecInsertNews(i)

Spec == Init /\ [][Next]_vars

\* Each call runs to completion before the next one starts.
NextSerial ==
  \/ \E n \in NewsItemIds, t \in VoteTypes, ip \in VoterIps,
        s \in VoteSourceArgs :
          Quiescent /\ Vote(n, t, ip, s) /\ handled' = NoRequest /\ response' = response
  \/ \E len \in SummaryLens :
        Quiescent /\ AddNewsItem(Text(0, len), Undefined) /\ handled' = NoRequest /\ response' = response
  \/ ExecLookup(1)
  \/ ExecInsertVote(1)
  \/ ExecUpdateVote(1)
  \/ ExecAggregate(1)
  \/ ExecUpdateScore(1)
  \/ ExecInsertNews(1)

SpecSerial == Init /\ [][NextSerial]_vars

\* Calls run one after another, the clock runs, and the read operations
\* observe the tables between any two statements.
NextQuery ==
  \/ \E n \in NewsItemIds, t \in VoteTypes, ip \in VoterIps,
        s \in VoteSourceArgs :
          Quiescent /\ votesStarted < QueryVotes /\ Vote(n, t, ip, s)
          /\ handled' = NoRequest /\ response' = response
  \/ \E len \in SummaryLens :
        Quiescent /\ AddNewsItem(Text(0, len), Undefined) /\ handled' = NoRequest /\ response' = response
  \/ ExecLookup(1)
  \/ ExecInsertVote(1)
  \/ ExecUpdateVote(1)
  \/ ExecAggregate(1)
  \/ ExecUpdateScore(1)
  \/ ExecInsertNews(1)
  \/ \E sortType \in SortTypes : GetNewsItemsBySort(sortType)
  \/ \E n \in NewsItemIds : GetVoteCounts(n)
  \/ Tick

SpecQuery == Init /\ [][NextQuery]_vars

\* The response to a refused request has been sent.
Answered ==
  /\ handled.status # 0
  /\ handled' = NoRequest
  /\ settled' = NoCall
  /\ NoReads
  /\ UNCHANGED <<isPostgres, response, errors, trackCalls, trackerOp, env, telemetry, requests, windows, proc, schema, init, news_items, news_seq, votes, now, queue,
                 returned, votesStarted, inOrder, allOnItems>>

\* Requests arrive one after another at the HTTP handlers, which call the
\* adapter.
NextHttp ==
  \/ \E summary \in SummaryArgs, link \in LinkArgs, author \in AuthorArgs :
        /\ Quiescent /\ handled = NoRequest
        /\ NewsRefused(summary, link, author) \/ news_seq < HttpItems
        /\ PostNews(summary, link, author) /\ response' = response
  \/ \E newsId \in NewsIdArgs, voteType \in VoteTypeArgs, source \in SourceArgs,
        voterIp \in RequestIps :
          /\ Quiescent /\ handled = NoRequest
          /\ VoteRefused(newsId, voteType) \/ votesStarted < HttpVotes
          /\ PostVote(newsId, voteType, source, voterIp)
          /\ response' = response
  \/ Answered
  \/ ExecLookup(1)
  \/ ExecInsertVote(1)
  \/ ExecUpdateVote(1)
  \/ ExecAggregate(1)
  \/ ExecUpdateScore(1)
  \/ ExecInsertNews(1)

SpecHttp == Init /\ [][NextHttp]_vars

\* Calls run one after another and any storage statement may fail.
NextFail ==
  \/ \E n \in NewsItemIds, t \in VoteTypes, ip \in VoterIps,
        s \in VoteSourceArgs :
          Quiescent /\ votesStarted < FailVotes /\ Vote(n, t, ip, s)
          /\ handled' = NoRequest /\ response' = response
  \/ \E len \in SummaryLens :
        Quiescent /\ AddNewsItem(Text(0, len), Undefined) /\ handled' = NoRequest /\ response' = response
  \/ ExecLookup(1)
  \/ ExecInsertVote(1)
  \/ ExecUpdateVote(1)
  \/ ExecAggregate(1)
  \/ ExecUpdateScore(1)
  \/ ExecInsertNews(1)
  \/ FailStatement(1)
  \/ GetAllNewsItems
  \/ \E sortType \in SortTypes : GetNewsItemsBySort(sortType)
  \/ \E n \in NewsItemIds : GetVoteCounts(n)
  \/ \E op \in {"getAllNewsItems", "getNewsItemsBySort", "getVoteCounts"} :
        FailRead(op)

SpecFail == Init /\ [][NextFail]_vars

\* Calls run one after another until the process is shut down.
NextShutdown ==
  \/ \E n \in NewsItemIds, t \in VoteTypes, ip \in VoterIps,
        s \in VoteSourceArgs :
          /\ proc.state = "running" /\ Quiescent /\ votesStarted < ShutdownVotes
          /\ Vote(n, t, ip, s) /\ handled' = NoRequest /\ response' = response
  \/ \E len \in SummaryLens :
        /\ proc.state = "running" /\ Quiescent
        /\ AddNewsItem(Text(0, len), Undefined) /\ handled' = NoRequest /\ response' = response
  \/ proc.state = "running" /\ ExecLookup(1)
  \/ proc.state = "running" /\ ExecInsertVote(1)
  \/ proc.state = "running" /\ ExecAggregate(1)
  \/ proc.state = "running" /\ ExecUpdateScore(1)
  \/ proc.state = "running" /\ ExecInsertNews(1)
  \/ \E sig \in Signals : Signal(sig)
  \/ Exit
  \/ UncaughtException

SpecShutdown == Init /\ [][NextShutdown]_vars

\* The schema is initialized, calls run one after another, and the process is
\* started again.
NextSchema ==
  \/ InitializeTables
  \/ InitializePostgresTables
  \/ \E table \in MigratedTables : PragmaGet(table)
  \/ \E table \in MigratedTables : PragmaAll(table)
  \/ \E table \in MigratedTables : ExecAlter(table)
  \/ Restart
  \/ \E n \in NewsItemIds, t \in VoteTypes, ip \in VoterIps,
        s \in VoteSourceArgs :
          /\ InitDone /\ Quiescent /\ votesStarted < SchemaVotes
          /\ Vote(n, t, ip, s) /\ handled' = NoRequest /\ response' = response
  \/ \E len \in SummaryLens :
        /\ InitDone /\ Quiescent
        /\ AddNewsItem(Text(0, len), Undefined) /\ handled' = NoRequest /\ response' = response
  \/ ExecLookup(1)
  \/ ExecInsertVote(1)
  \/ ExecUpdateVote(1)
  \/ ExecAggregate(1)
  \/ ExecUpdateScore(1)
  \/ ExecInsertNews(1)
  \/ ExecMissingColumn(1)

SpecSchema == InitSchema /\ [][NextSchema]_vars

\* Requests arrive at the rate limiter while time passes.
NextRate ==
  \/ \E ip \in RateIps : RateLimit(ip) /\ served' = NoServed
  \/ Elapse

SpecRate == Init /\ [][NextRate]_vars

\* The server is initialized and requests go through its middleware chain.
NextChain ==
  \/ Initialize
  \/ \E method \in Methods, path \in Paths, ip \in ChainIps,
        threat \in Threats :
        HandleRequest([method |-> method, path |-> path, ip |-> ip,
                       threat |-> threat])

SpecChain == InitChain /\ [][NextChain]_vars

\* The error tracker alone: errors are tracked, resolved and cleared.
NextErrors ==
  \/ \E f \in Fingerprints, s \in Severities : trackError(f, s)
  \/ \E f \in Fingerprints : resolveError(f)
  \/ clearResolvedErrors

SpecErrors == Init /\ [][NextErrors]_vars

\* Requests arrive one after another at the route handlers; any statement
\* and any read of the adapter may fail.
NextRoute ==
  \/ \E summary \in {Undefined, Text(0, MaxSummaryLen)},
        link \in {"https://example.com/a"}, author \in {Undefined} :
        /\ NewsRefused(summary, link, author) \/ news_seq < RouteItems
        /\ NewsRequest(summary, link, author)
  \/ \E newsId \in {NoNewsId, 1}, voteType \in VoteTypeArgs \ {"undefined"},
        source \in {"undefined"}, voterIp \in RequestIps :
          /\ VoteRefused(newsId, voteType) \/ votesStarted < RouteVotes
          /\ VoteRequest(newsId, voteType, source, voterIp)
  \/ RootRequest
  \/ \E sortType \in SortTypes :
        response.phase = "listing" /\ listed = NoList /\ ~settled.err
        /\ GetNewsItemsBySort(sortType)
  \/ RenderPage
  \/ ExecLookup(1)
  \/ ExecInsertVote(1)
  \/ ExecUpdateVote(1)
  \/ ExecAggregate(1)
  \/ ExecUpdateScore(1)
  \/ ExecInsertNews(1)
  \/ Failures < RouteFailures /\ response.phase = "awaiting" /\ FailStatement(1)
  \/ Resume
  \/ \E n \in NewsItemIds :
        response.phase = "counting" /\ counted = NoCounts /\ ~settled.err
        /\ GetVoteCounts(n)
  \/ SendCounts
  \/ /\ Failures < RouteFailures
     /\ response.phase = "listing" /\ listed = NoList /\ ~settled.err
     /\ FailRead("getNewsItemsBySort")
  \/ /\ Failures < RouteFailures
     /\ response.phase = "counting" /\ counted = NoCounts /\ ~settled.err
     /\ FailRead("getVoteCounts")
  \/ errorHandlingMiddleware
  \/ unhandledRejection
  \/ NextRequest

SpecRoute == Init /\ [][NextRoute]_vars
====
